---- MODULE Spec2Model ----
(***************************************************************************)
(* Chunked upload, finalization, HLS transcoding and tiered playback of    *)
(* the video collaboration platform.                                       *)
(*                                                                         *)
(* The repository holds two versions of the multipart "complete" route     *)
(* (src/app/api/uploadthing/core.ts lines 50-217, called route "A" here,   *)
(* and src/unnamed/part_004, route "B") and two versions of the stream     *)
(* route (src/unnamed/part_005, "S5", and src/unnamed/part_006, "S6").     *)
(* The deployed version is fixed in the initial state; every handler is    *)
(* split at its awaits, so that concurrent requests interleave exactly     *)
(* where the event loop lets them.                                         *)
(*                                                                         *)
(* A video record and its S3 multipart upload are created together by the  *)
(* initiate route, so one identifier stands for the record _id, its        *)
(* uploadId and its temporary key.                                         *)
(***************************************************************************)
EXTENDS Naturals, Sequences, FiniteSets

\* ---------------------------------------------------------------- bounds
MaxPart == 3
MaxAcks == 2
NumReqs == 2
SegCount == 2
MaxStreams == 2
MaxLen == 3

\* ------------------------------------------------------------ value sets
\* Identifiers and keys are sequences of path elements.
VideoIds == {<<"v1">>}
Users == {"u1", "u2"}
WorkspaceOwner == "u1"
Parts == 1..MaxPart
Tags == {"tagA", "tagB"}
Reqs == 1..NumReqs
AckIds == 1..MaxAcks
Segs == 1..SegCount
StreamIds == 1..MaxStreams
Routes == {"A", "B"}
StreamRoutes == {"S5", "S6"}

\* An unset optional field of a record, and a missing call argument.
Undefined == <<>>

\* The rendition table of the transcoder.
resolutions ==
  << [name |-> "720p", width |-> 1280, height |-> 720, bitrate |-> 2800000],
     [name |-> "1080p", width |-> 1920, height |-> 1080, bitrate |-> 5000000] >>

Rends == 1..Len(resolutions)

\* The fileSize and workspaceId of the bodies sent to the initiate route; an
\* empty workspaceId stands for a body without one.
FileSizes == {0, 12}
WorkspaceIds == {"", "w1"}

\* Keys in the bucket.
TempKey(v) == <<"uploads">> \o v
\* The UploadId S3 assigns to the multipart upload of v, and one it never
\* assigned.
UploadId(v) == <<"upload">> \o v
ForeignUploadId == <<"upload", "other">>
FinalKey(v) == <<"videos">> \o v \o <<"file">>
HlsBaseDir(videoId) == <<"videos">> \o videoId \o <<"hls">>
MasterKey(base) == base \o <<"master.m3u8">>

VARIABLES
  route,        \* which version of the complete route is deployed
  streamRoute,  \* which version of the stream route is deployed
  videos,       \* the Video collection: video id -> document
  mpu,          \* S3: state of the multipart upload of each video
  objects,      \* S3: the objects stored for each video
  scratch,      \* local disk: whether /tmp/<videoId> exists
  ack,          \* calls of updateMultipartUploadParts
  fin,          \* requests to the complete route
  del,          \* the call of deleteVideo in progress
  cancelled,    \* client: cancelUpload was pressed for the upload
  play,         \* requests to the stream route
  sign          \* the request to the presigned route

vars == <<route, streamRoute, videos, mpu, objects, scratch, ack, fin, del,
          cancelled, play, sign>>

\* ------------------------------------------------------------ documents
NoDoc ==
  [status |-> "absent", uploadedById |-> "", fileSize |-> 0,
   uploadId |-> Undefined, s3Key |-> Undefined, chunkParts |-> <<>>,
   videoKey |-> Undefined, hlsKey |-> Undefined, processingError |-> "",
   viewCount |-> 0]

Exists(v) == videos[v].status \notin {"absent", "deleted"}

NoObjects ==
  [temp |-> FALSE, final |-> FALSE, segs |-> [r \in Rends |-> {}],
   playlist |-> [r \in Rends |-> FALSE], master |-> <<>>]

IdleAck == [pc |-> "idle", video |-> <<>>, part |-> 0, tag |-> ""]

\* A request to the complete route: its position, its inputs, what it read and
\* what it has done so far.
\*   userId    the caller
\*   seen      status of the document when the request looked it up
\*   sent      the part list of the CompleteMultipartUpload command it sent
\*   complete  outcome of that command: "none", "ok" or "failed"
\*   copied    it sent the CopyObject command
\*   setProc   it wrote status "processing"
\*   rend, seg, master   position of generateHLSContent and its masterPlaylist
IdleFin ==
  [pc |-> "idle", userId |-> "", video |-> <<>>, parts |-> <<>>, seen |-> "",
   sent |-> <<>>, complete |-> "none", copied |-> FALSE, setProc |-> FALSE,
   rend |-> 0, seg |-> 0, master |-> <<>>, hls |-> Undefined, resp |-> 0]

\* The call of deleteVideo: seen is the status of the document it read.
IdleDel == [pc |-> "idle", video |-> <<>>, seen |-> ""]

\* A request to the stream route: the viewer's membership metadata, the keys
\* and the viewCount read from the document, and the response (allowedQuality "" when the
\* response has no such field, key the object the URL is signed for).
IdlePlay ==
  [pc |-> "idle", video |-> <<>>, meta |-> Undefined,
   hlsKey |-> Undefined, videoKey |-> Undefined, viewCount |-> 0, resp |-> 0,
   isHLS |-> FALSE, allowedQuality |-> "", key |-> Undefined]

\* The request to the presigned route: the document it asked for, what the
\* lookup found (seen: its status, own: the caller is its uploader), and the
\* command the URL of the response is signed for.
IdleSign ==
  [pc |-> "idle", video |-> <<>>, seen |-> "", own |-> FALSE, resp |-> 0,
   url |-> Undefined]

Init ==
  /\ route \in Routes
  /\ streamRoute \in StreamRoutes
  /\ videos = [v \in VideoIds |-> NoDoc]
  /\ mpu = [v \in VideoIds |-> "none"]
  /\ objects = [v \in VideoIds |-> NoObjects]
  /\ scratch = [v \in VideoIds |-> FALSE]
  /\ ack = [i \in AckIds |-> IdleAck]
  /\ fin = [r \in Reqs |-> IdleFin]
  /\ del = IdleDel
  /\ cancelled = [v \in VideoIds |-> FALSE]
  /\ play = [i \in StreamIds |-> IdlePlay]
  /\ sign = IdleSign

\* findByIdAndUpdate: updates the document when it exists, and is a no-op
\* (returns null) when it does not.
FindByIdAndUpdate(v, doc) ==
  IF Exists(v) THEN [videos EXCEPT ![v] = doc] ELSE videos

\* ------------------------------------------------------- initiate route
\* video.validate(): the paths of VideoSchema that are required and come
\* from the body.  A required Number accepts every number, zero included.
ValidVideoData(fileSize, workspaceId) == workspaceId # ""

\* A route that saves the document whatever CreateMultipartUpload answered.
SavesDocumentUnchecked(s3ok, valid) == valid

\* The document is saved when CreateMultipartUpload returned an UploadId
\* (the route throws otherwise) and the validation passed.
SavesDocument(s3ok, valid) == s3ok /\ valid

\* POST multipart/initiate: CreateMultipartUpload first, then the document is
\* saved with status "uploading".  When S3 fails nothing changes; when the
\* validation of the document fails the handle stays open without a document.
Initiate(u, v, s3ok, fileSize, workspaceId) ==
  /\ videos[v].status = "absent"
  /\ mpu[v] = "none"
  /\ mpu' = IF s3ok THEN [mpu EXCEPT ![v] = "open"] ELSE mpu
  /\ videos' = IF SavesDocument(s3ok, ValidVideoData(fileSize, workspaceId))
               THEN [videos EXCEPT ![v] =
                       [NoDoc EXCEPT !.status = "uploading",
                                     !.uploadedById = u,
                                     !.fileSize = fileSize,
                                     !.uploadId = UploadId(v),
                                     !.s3Key = TempKey(v)]]
               ELSE videos
  /\ UNCHANGED <<route, streamRoute, objects, scratch, ack, fin, del,
                 cancelled, play, sign>>

\* ------------------------------------------------------ presigned route
\* The filter of the findOne: _id, uploadId and uploadedById.
SignFilter(doc, u, uploadId) ==
  /\ doc.status \notin {"absent", "deleted"}
  /\ doc.uploadId = uploadId
  /\ doc.uploadedById = u

\* The UploadPartCommand that is signed: key, uploadId and partNumber are
\* those of the body of the request.
UploadPartCommand(key, uploadId, partNumber) ==
  [Key |-> key, UploadId |-> uploadId, PartNumber |-> partNumber]

\* POST multipart/presigned: the lookup of the document, 404 when none
\* matches, and the signed URL.
Presign(u, v, uploadId, key, partNumber) ==
  /\ sign.pc = "idle"
  /\ LET doc == videos[v]
         req == [IdleSign EXCEPT !.pc = "done", !.video = v]
     IN sign' = IF ~SignFilter(doc, u, uploadId)
                THEN [req EXCEPT !.resp = 404]
                ELSE [req EXCEPT !.resp = 200, !.seen = doc.status,
                                 !.own = (doc.uploadedById = u),
                                 !.url = UploadPartCommand(key, uploadId,
                                                           partNumber)]
  /\ UNCHANGED <<route, streamRoute, videos, mpu, objects, scratch, ack,
                 fin, del, cancelled, play>>

\* ------------------------------------------- updateMultipartUploadParts
\* The filter of the findOne: _id, uploadId and uploadedById.  The status of
\* the document is not part of it.
AckFilter(doc, u) ==
  /\ doc.status \notin {"absent", "deleted"}
  /\ doc.uploadedById = u

\* A $set of the list where the code has a $push.
PushPartOverwrite(chunkParts, part) == <<part>>

\* $push: the part is appended to chunkParts, whatever it already holds.
PushPart(chunkParts, part) == Append(chunkParts, part)

\* First await: the document is looked up; the call fails when none matches.
AckFind(i, u, v, p, t) ==
  /\ ack[i].pc = "idle"
  /\ IF i = 1 THEN TRUE ELSE ack[i - 1].pc # "idle"
  /\ ack' = [ack EXCEPT ![i] =
               [pc |-> IF AckFilter(videos[v], u) THEN "found" ELSE "failed",
                video |-> v, part |-> p, tag |-> t]]
  /\ UNCHANGED <<route, streamRoute, videos, mpu, objects, scratch, fin, del,
                 cancelled, play, sign>>

\* Second await: findByIdAndUpdate with $push, then { success: true }.
AckPush(i) ==
  /\ ack[i].pc = "found"
  /\ LET v == ack[i].video
         part == [ETag |-> ack[i].tag, PartNumber |-> ack[i].part]
     IN videos' = FindByIdAndUpdate(v,
                    [videos[v] EXCEPT
                       !.chunkParts = PushPart(videos[v].chunkParts, part)])
  /\ ack' = [ack EXCEPT ![i].pc = "ok"]
  /\ UNCHANGED <<route, streamRoute, mpu, objects, scratch, fin, del,
                 cancelled, play, sign>>

\* ------------------------------------------------- cancelUpload (client)
\* The upload form aborts its own fetches and resets its progress; it sends
\* nothing to the server or to S3.
CancelUpload(v) ==
  /\ videos[v].status = "uploading"
  /\ ~cancelled[v]
  /\ cancelled' = [cancelled EXCEPT ![v] = TRUE]
  /\ UNCHANGED <<route, streamRoute, videos, mpu, objects, scratch, ack, fin,
                 del, play, sign>>

\* ---------------------------------------------------------- deleteVideo
\* The uploader, or the owner of the workspace, may delete.
MayDelete(doc, u) == doc.uploadedById = u \/ u = WorkspaceOwner

\* findById and the permission check; the status read here decides whether
\* the multipart upload is aborted.
DelStart(u, v) ==
  /\ del.pc = "idle"
  /\ Exists(v)
  /\ MayDelete(videos[v], u)
  /\ del' = [pc |-> IF videos[v].status = "uploading" THEN "abort"
                    ELSE "remove",
             video |-> v, seen |-> videos[v].status]
  /\ UNCHANGED <<route, streamRoute, videos, mpu, objects, scratch, ack, fin,
                 cancelled, play, sign>>

\* AbortMultipartUpload; its failure is logged and deletion continues.
DelAbort(s3ok) ==
  /\ del.pc = "abort"
  /\ mpu' = IF s3ok /\ mpu[del.video] = "open"
            THEN [mpu EXCEPT ![del.video] = "aborted"] ELSE mpu
  /\ del' = [del EXCEPT !.pc = "remove"]
  /\ UNCHANGED <<route, streamRoute, videos, objects, scratch, ack, fin,
                 cancelled, play, sign>>

\* findByIdAndDelete.
DelRemove ==
  /\ del.pc = "remove"
  /\ videos' = IF Exists(del.video)
               THEN [videos EXCEPT ![del.video].status = "deleted"]
               ELSE videos
  /\ del' = IdleDel
  /\ UNCHANGED <<route, streamRoute, mpu, objects, scratch, ack, fin,
                 cancelled, play, sign>>

\* ------------------------------------------------------- complete route
Part(t, p) == [ETag |-> t, PartNumber |-> p]

\* The part lists a client reports: none, an unsorted list, and a list with
\* a part whose ETag is empty.
PartInputs ==
  { <<>>,
    <<Part("tagB", 2), Part("tagA", 1)>>,
    <<Part("tagA", 2), Part("", 1)>> }

\* A route that sends the parts in the order of the request body.
KeepOrder(parts) == parts

\* parts.sort((a, b) => a.PartNumber - b.PartNumber): stable, ascending.
RECURSIVE InsertPart(_, _)
InsertPart(sorted, x) ==
  IF sorted = <<>> THEN <<x>>
  ELSE IF Head(sorted).PartNumber <= x.PartNumber
       THEN <<Head(sorted)>> \o InsertPart(Tail(sorted), x)
       ELSE <<x>> \o sorted

RECURSIVE SortParts(_)
SortParts(parts) ==
  IF parts = <<>> THEN <<>>
  ELSE InsertPart(SortParts(SubSeq(parts, 1, Len(parts) - 1)),
                  parts[Len(parts)])

\* Route A requires a non-empty part list; route B also that every part has
\* an ETag and a PartNumber.
ValidParts(rt, parts) ==
  /\ Len(parts) > 0
  /\ rt = "B" =>
       \A k \in 1..Len(parts) : parts[k].ETag # "" /\ parts[k].PartNumber # 0

\* The lookup of the document: findById in route A; findOne by _id, uploadId
\* and uploadedById in route B.  Neither looks at the status.
FinFilter(rt, doc, u) ==
  /\ doc.status \notin {"absent", "deleted"}
  /\ rt = "B" => doc.uploadedById = u

\* S3 completes an upload that exists, given parts that all carry an ETag;
\* it may fail for any other reason as well.
S3CanComplete(handle, parts) ==
  /\ handle \in {"open", "completed"}
  /\ \A k \in 1..Len(parts) : parts[k].ETag # ""

\* Validation of the body and lookup of the document.
FinStart(r, u, v, parts) ==
  /\ fin[r].pc = "idle"
  /\ IF r = 1 THEN TRUE ELSE fin[r - 1].pc # "idle"
  /\ fin' = [fin EXCEPT ![r] =
       IF ~ValidParts(route, parts)
       THEN [IdleFin EXCEPT !.pc = "done", !.userId = u, !.video = v,
                            !.parts = parts, !.resp = 400]
       ELSE IF ~FinFilter(route, videos[v], u)
       THEN [IdleFin EXCEPT !.pc = "done", !.userId = u, !.video = v,
                            !.parts = parts, !.resp = 404]
       ELSE [IdleFin EXCEPT !.pc = IF route = "A" THEN "complete"
                                   ELSE "setProcessing",
                            !.userId = u, !.video = v, !.parts = parts,
                            !.seen = videos[v].status]]
  /\ UNCHANGED <<route, streamRoute, videos, mpu, objects, scratch, ack, del,
                 cancelled, play, sign>>

\* CompleteMultipartUpload with the sorted parts.  Route A marks the video as
\* failed when S3 fails; route B logs the failure and goes on.
FinComplete(r, s3ok) ==
  /\ fin[r].pc = "complete"
  /\ LET v == fin[r].video
         sorted == SortParts(fin[r].parts)
         ok == s3ok /\ S3CanComplete(mpu[v], sorted)
     IN /\ mpu' = IF ok THEN [mpu EXCEPT ![v] = "completed"] ELSE mpu
        /\ objects' = IF ok /\ mpu[v] = "open"
                      THEN [objects EXCEPT ![v].temp = TRUE] ELSE objects
        /\ fin' = [fin EXCEPT
                     ![r].sent = sorted,
                     ![r].complete = IF ok THEN "ok" ELSE "failed",
                     ![r].pc = IF route = "B" THEN "copy"
                               ELSE IF ok THEN "setProcessing"
                               ELSE "markError"]
  /\ UNCHANGED <<route, streamRoute, videos, scratch, ack, del, cancelled,
                 play, sign>>

\* findByIdAndUpdate(videoId, { status: "processing" }): after the completion
\* in route A, before it in route B.
FinSetProcessing(r) ==
  /\ fin[r].pc = "setProcessing"
  /\ LET v == fin[r].video
     IN videos' = FindByIdAndUpdate(v,
                    [videos[v] EXCEPT !.status = "processing"])
  /\ fin' = [fin EXCEPT ![r].setProc = TRUE,
                        ![r].pc = IF route = "A" THEN "copy" ELSE "complete"]
  /\ UNCHANGED <<route, streamRoute, mpu, objects, scratch, ack, del,
                 cancelled, play, sign>>

\* A route that goes on to the next step whether or not the copy succeeded.
AfterCopyUnchecked(rt, ok) == IF rt = "A" THEN "delete" ELSE "transcode"

\* Where the request goes after CopyObject: into the catch when the command
\* threw, else to the DeleteObject in route A and to the transcode in route B.
AfterCopy(rt, ok) ==
  IF ~ok THEN "markError" ELSE IF rt = "A" THEN "delete" ELSE "transcode"

\* A DeleteObject of the final key.
DeleteFinalKey(obj) == [obj EXCEPT !.final = FALSE]

\* DeleteObjectCommand({ Key: key }): the temporary key.
DeleteTempKey(obj) == [obj EXCEPT !.temp = FALSE]

\* CopyObject from the temporary key to the final key.
FinCopy(r, s3ok) ==
  /\ fin[r].pc = "copy"
  /\ LET v == fin[r].video
         ok == s3ok /\ objects[v].temp
     IN /\ objects' = IF ok THEN [objects EXCEPT ![v].final = TRUE]
                      ELSE objects
        /\ fin' = [fin EXCEPT
                     ![r].copied = TRUE,
                     ![r].pc = AfterCopy(route, ok)]
  /\ UNCHANGED <<route, streamRoute, videos, mpu, scratch, ack, del,
                 cancelled, play, sign>>

\* DeleteObject of the temporary key (route A only).
FinDelete(r, s3ok) ==
  /\ fin[r].pc = "delete"
  /\ LET v == fin[r].video
     IN objects' = IF s3ok THEN [objects EXCEPT ![v] = DeleteTempKey(@)]
                   ELSE objects
  /\ fin' = [fin EXCEPT ![r].pc = IF s3ok THEN "transcode" ELSE "markError"]
  /\ UNCHANGED <<route, streamRoute, videos, mpu, scratch, ack, del,
                 cancelled, play, sign>>

\* --------------------------------------------------- generateHLSContent
\* The arguments of the call: route A passes (videoId, finalKey); route B
\* passes the final key alone, so that videoKey is undefined.
HlsArgs(rt, v) ==
  IF rt = "A" THEN [videoId |-> v, videoKey |-> FinalKey(v)]
  ELSE [videoId |-> FinalKey(v), videoKey |-> Undefined]

\* if (!videoId || !videoKey) throw
HlsArgsOk(args) == args.videoId # Undefined /\ args.videoKey # Undefined

\* A loop over segmentFiles that stops after the first segment.
SegmentsDoneEarly(n) == n >= 1

\* The loop over segmentFiles has uploaded every segment of the rendition.
SegmentsDone(n) == n = SegCount

\* The guard on the arguments, the scratch directory and the download of the
\* source.  ensureDirSync runs before the GetObject, so the directory exists
\* also when the download fails.
FinDownload(r, s3ok) ==
  /\ fin[r].pc = "transcode"
  /\ LET v == fin[r].video
         args == HlsArgs(route, v)
         ok == s3ok /\ objects[v].final
     IN IF ~HlsArgsOk(args)
        THEN /\ fin' = [fin EXCEPT ![r].pc = "markError"]
             /\ UNCHANGED scratch
        ELSE /\ scratch' = [scratch EXCEPT ![v] = TRUE]
             /\ fin' = [fin EXCEPT
                          ![r].pc = IF ok THEN "encode" ELSE "markError",
                          ![r].rend = IF ok THEN 1 ELSE 0]
  /\ UNCHANGED <<route, streamRoute, videos, mpu, objects, ack, del,
                 cancelled, play, sign>>

\* ffmpeg writes the segments and the playlist of rendition rend to scratch.
FinEncode(r, encok) ==
  /\ fin[r].pc = "encode"
  /\ LET ok == encok /\ scratch[fin[r].video]
     IN fin' = [fin EXCEPT ![r].pc = IF ok THEN "segments" ELSE "markError",
                           ![r].seg = 0]
  /\ UNCHANGED <<route, streamRoute, videos, mpu, objects, scratch, ack, del,
                 cancelled, play, sign>>

\* uploadToS3 of the next segment of the rendition.
FinSegment(r, s3ok) ==
  /\ fin[r].pc = "segments"
  /\ LET v == fin[r].video
         i == fin[r].rend
         n == fin[r].seg + 1
         ok == s3ok /\ scratch[v]
     IN /\ objects' = IF ok
                      THEN [objects EXCEPT ![v].segs[i] = @ \cup {n}]
                      ELSE objects
        /\ fin' = [fin EXCEPT
                     ![r].seg = IF ok THEN n ELSE @,
                     ![r].pc = IF ~ok THEN "markError"
                               ELSE IF SegmentsDone(n) THEN "playlist"
                               ELSE "segments"]
  /\ UNCHANGED <<route, streamRoute, videos, mpu, scratch, ack, del,
                 cancelled, play, sign>>

\* uploadToS3 of the playlist of the rendition, which is then added to
\* masterPlaylist; the loop goes on with the next rendition.
FinPlaylist(r, s3ok) ==
  /\ fin[r].pc = "playlist"
  /\ LET v == fin[r].video
         i == fin[r].rend
         ok == s3ok /\ scratch[v]
     IN /\ objects' = IF ok THEN [objects EXCEPT ![v].playlist[i] = TRUE]
                      ELSE objects
        /\ fin' = [fin EXCEPT
                     ![r].master = IF ok THEN Append(@, resolutions[i].name)
                                   ELSE @,
                     ![r].rend = IF ok /\ i < Len(resolutions) THEN i + 1
                                 ELSE @,
                     ![r].pc = IF ~ok THEN "markError"
                               ELSE IF i < Len(resolutions) THEN "encode"
                               ELSE "master"]
  /\ UNCHANGED <<route, streamRoute, videos, mpu, scratch, ack, del,
                 cancelled, play, sign>>

\* master.m3u8 is written to scratch and uploaded.
FinMaster(r, s3ok) ==
  /\ fin[r].pc = "master"
  /\ LET v == fin[r].video
         ok == s3ok /\ scratch[v]
     IN /\ objects' = IF ok THEN [objects EXCEPT ![v].master = fin[r].master]
                      ELSE objects
        /\ fin' = [fin EXCEPT ![r].pc = IF ok THEN "cleanup"
                                        ELSE "markError"]
  /\ UNCHANGED <<route, streamRoute, videos, mpu, scratch, ack, del,
                 cancelled, play, sign>>

\* removeSync of the scratch directory, on the successful path only; its
\* failure is logged.  The call returns hlsBaseDir.
FinCleanup(r, fsok) ==
  /\ fin[r].pc = "cleanup"
  /\ LET v == fin[r].video
     IN /\ scratch' = IF fsok THEN [scratch EXCEPT ![v] = FALSE] ELSE scratch
        /\ fin' = [fin EXCEPT ![r].pc = "setReady",
                              ![r].hls = HlsBaseDir(HlsArgs(route, v).videoId)]
  /\ UNCHANGED <<route, streamRoute, videos, mpu, objects, ack, del,
                 cancelled, play, sign>>

\* ------------------------------------------- complete route, conclusion
\* The final update of the document, and the response.  When the update
\* throws, route A lands in the catch of its processing block; route B in its
\* outer catch, whose second req.json() throws, so that nothing is written.
FinSetReady(r, dbok) ==
  /\ fin[r].pc = "setReady"
  /\ LET v == fin[r].video
     IN IF dbok
        THEN /\ videos' = FindByIdAndUpdate(v,
                            [videos[v] EXCEPT !.status = "ready",
                                              !.videoKey = FinalKey(v),
                                              !.hlsKey = fin[r].hls])
             /\ fin' = [fin EXCEPT ![r].pc = "done", ![r].resp = 200]
        ELSE /\ UNCHANGED videos
             /\ fin' = IF route = "A"
                       THEN [fin EXCEPT ![r].pc = "markError"]
                       ELSE [fin EXCEPT ![r].pc = "done", ![r].resp = 500]
  /\ UNCHANGED <<route, streamRoute, mpu, objects, scratch, ack, del,
                 cancelled, play, sign>>

\* A catch block that answers 500 without updating the document.
CatchUpdateSkipped(rt, doc) == doc

\* The update of the catch blocks: status "error".  Route A also writes
\* errorMessage, which is no path of VideoSchema and is dropped by the
\* update; route B writes processingError.
CatchUpdate(rt, doc) ==
  [doc EXCEPT !.status = "error",
              !.processingError =
                 IF rt = "B" THEN "Failed to process video after upload"
                 ELSE @]

\* The catch blocks: the update, and a 500.
FinMarkError(r) ==
  /\ fin[r].pc = "markError"
  /\ LET v == fin[r].video
     IN videos' = FindByIdAndUpdate(v, CatchUpdate(route, videos[v]))
  /\ fin' = [fin EXCEPT ![r].pc = "done", ![r].resp = 500]
  /\ UNCHANGED <<route, streamRoute, mpu, objects, scratch, ack, del,
                 cancelled, play, sign>>

\* ------------------------------------------------------ getUserMembership
\* The membership metadata Clerk holds for a viewer; err: the lookup throws.
Member(err, isPaid, tier, expiresAt) ==
  [err |-> err, isPaid |-> isPaid, tier |-> tier, expiresAt |-> expiresAt]

\* No metadata, a paid membership (running, without end, and expired), a
\* member marked paid on the free tier, and a failing lookup.
Memberships ==
  { Member(FALSE, FALSE, "", "none"),
    Member(FALSE, TRUE, "premium", "future"),
    Member(FALSE, TRUE, "premium", "none"),
    Member(FALSE, TRUE, "premium", "past"),
    Member(FALSE, TRUE, "free", "none"),
    Member(TRUE, FALSE, "", "none") }

getUserMembership(m) ==
  IF m.err THEN [isPaidMember |-> FALSE, tier |-> "free"]
  ELSE IF m.expiresAt = "past" THEN [isPaidMember |-> FALSE, tier |-> "free"]
  ELSE [isPaidMember |-> m.isPaid,
        tier |-> IF m.tier = "" THEN "free" ELSE m.tier]

\* ----------------------------------------------------------- stream route
\* allowedQuality: userAllowedHD ? "1080p" : "720p"
AllowedQuality(isPaidMember) == IF isPaidMember THEN "1080p" ELSE "720p"

\* A lookup that takes a video in any status.
StreamReadyAny(doc) == TRUE

\* The status the stream route asks for: status: "ready" in the filter of S5,
\* video.status !== "ready" in S6.
StreamReady(doc) == doc.status = "ready"

\* The lookup of the video.  S5 finds only a video that is ready; S6 finds
\* it by id, checks the status, and answers the video without HLS content
\* right away.
StreamFind(i, v, m) ==
  /\ play[i].pc = "idle"
  /\ IF i = 1 THEN TRUE ELSE play[i - 1].pc # "idle"
  /\ LET doc == videos[v]
         req == [IdlePlay EXCEPT !.video = v, !.meta = m]
         found == [req EXCEPT !.pc = "found", !.hlsKey = doc.hlsKey,
                              !.videoKey = doc.videoKey,
                              !.viewCount = doc.viewCount]
     IN play' = [play EXCEPT ![i] =
          IF streamRoute = "S5"
          THEN IF Exists(v) /\ StreamReady(doc) THEN found
               ELSE [req EXCEPT !.pc = "done", !.resp = 404]
          ELSE IF ~Exists(v) THEN [req EXCEPT !.pc = "done", !.resp = 404]
          ELSE IF ~StreamReady(doc)
               THEN [req EXCEPT !.pc = "done", !.resp = 400]
          ELSE IF doc.hlsKey = Undefined
               THEN IF doc.videoKey # Undefined
                    THEN [req EXCEPT !.pc = "done", !.resp = 200,
                                     !.key = doc.videoKey]
                    ELSE [req EXCEPT !.pc = "done", !.resp = 404]
          ELSE found]
  /\ UNCHANGED <<route, streamRoute, videos, mpu, objects, scratch, ack, fin,
                 del, cancelled, sign>>

\* An update that writes back the viewCount the request read, plus one.
IncReadValue(viewCount, read) == read + 1

\* $inc: { viewCount: 1 }: the database adds one to the value it holds,
\* whatever the request read before.
IncViewCount(viewCount, read) == viewCount + 1

\* The increment of viewCount and the response.  S5 looks the membership up
\* and reports allowedQuality with the URL of master.m3u8; S6 signs hlsKey
\* itself and reports no quality.
StreamFinish(i) ==
  /\ play[i].pc = "found"
  /\ LET v == play[i].video
         ms == getUserMembership(play[i].meta)
     IN /\ videos' = FindByIdAndUpdate(v,
                       [videos[v] EXCEPT
                          !.viewCount = IncViewCount(@, play[i].viewCount)])
        /\ play' = [play EXCEPT ![i] =
             IF streamRoute = "S5"
             THEN IF play[i].hlsKey # Undefined
                  THEN [@ EXCEPT !.pc = "done", !.resp = 200, !.isHLS = TRUE,
                          !.allowedQuality = AllowedQuality(ms.isPaidMember),
                          !.key = MasterKey(play[i].hlsKey)]
                  ELSE IF play[i].videoKey # Undefined
                  THEN [@ EXCEPT !.pc = "done", !.resp = 200,
                                 !.key = play[i].videoKey]
                  ELSE [@ EXCEPT !.pc = "done", !.resp = 404]
             ELSE [@ EXCEPT !.pc = "done", !.resp = 200, !.isHLS = TRUE,
                            !.key = play[i].hlsKey]]
  /\ UNCHANGED <<route, streamRoute, mpu, objects, scratch, ack, fin, del,
                 cancelled, sign>>

\* ------------------------------------------------------- specifications
\* Requests to the initiate route for files of the sizes S.
InitiateStep(S) ==
  \E u \in Users, v \in VideoIds, s3ok \in BOOLEAN, fileSize \in S,
     workspaceId \in WorkspaceIds :
    Initiate(u, v, s3ok, fileSize, workspaceId)

PresignStep ==
  \E u \in Users, v \in VideoIds, partNumber \in Parts :
    \E uploadId \in {UploadId(v), ForeignUploadId},
       key \in {TempKey(v), FinalKey(v)} :
      Presign(u, v, uploadId, key, partNumber)

AckStep ==
  \/ \E i \in AckIds, u \in Users, v \in VideoIds, p \in Parts, t \in Tags :
       AckFind(i, u, v, p, t)
  \/ \E i \in AckIds : AckPush(i)

CancelStep == \E v \in VideoIds : CancelUpload(v)

DeleteStep ==
  \/ \E u \in Users, v \in VideoIds : DelStart(u, v)
  \/ \E s3ok \in BOOLEAN : DelAbort(s3ok)
  \/ DelRemove

\* The steps of the requests R to the complete route.
FinalizeStep(R) ==
  \/ \E r \in R, u \in Users, v \in VideoIds, parts \in PartInputs :
       FinStart(r, u, v, parts)
  \/ \E r \in R, ok \in BOOLEAN : FinComplete(r, ok)
  \/ \E r \in R : FinSetProcessing(r)
  \/ \E r \in R, ok \in BOOLEAN : FinCopy(r, ok)
  \/ \E r \in R, ok \in BOOLEAN : FinDelete(r, ok)
  \/ \E r \in R, ok \in BOOLEAN : FinDownload(r, ok)
  \/ \E r \in R, ok \in BOOLEAN : FinEncode(r, ok)
  \/ \E r \in R, ok \in BOOLEAN : FinSegment(r, ok)
  \/ \E r \in R, ok \in BOOLEAN : FinPlaylist(r, ok)
  \/ \E r \in R, ok \in BOOLEAN : FinMaster(r, ok)
  \/ \E r \in R, ok \in BOOLEAN : FinCleanup(r, ok)
  \/ \E r \in R, ok \in BOOLEAN : FinSetReady(r, ok)
  \/ \E r \in R : FinMarkError(r)

StreamStep ==
  \/ \E i \in StreamIds, v \in VideoIds, m \in Memberships :
       StreamFind(i, v, m)
  \/ \E i \in StreamIds : StreamFinish(i)

\* Every operation, with every request in flight at once.
Next ==
  \/ InitiateStep(FileSizes)
  \/ PresignStep
  \/ AckStep
  \/ CancelStep
  \/ DeleteStep
  \/ FinalizeStep(Reqs)
  \/ StreamStep

Spec == Init /\ [][Next]_vars

\* Concurrent requests to the complete route, and deletion.
FinalizeNext ==
  \/ InitiateStep({12})
  \/ DeleteStep
  \/ FinalizeStep(Reqs)

SpecFinalize == Init /\ [][FinalizeNext]_vars

\* The part tracker next to one request to the complete route.
TrackerNext ==
  \/ InitiateStep({12})
  \/ AckStep
  \/ CancelStep
  \/ DeleteStep
  \/ FinalizeStep({1})

SpecTracker == Init /\ [][TrackerNext]_vars

\* Playback next to one request to the complete route.
PlaybackNext ==
  \/ InitiateStep({12})
  \/ FinalizeStep({1})
  \/ StreamStep

SpecPlayback == Init /\ [][PlaybackNext]_vars

\* The initiate and presigned routes next to one request to the complete
\* route.
SessionNext ==
  \/ InitiateStep(FileSizes)
  \/ PresignStep
  \/ FinalizeStep({1})

SpecSession == Init /\ [][SessionNext]_vars

\* Every part list of at most MaxLen parts.
AllPartLists ==
  UNION {[1..n -> {Part(t, p) : t \in Tags \cup {""}, p \in Parts}] :
           n \in 0..MaxLen}

\* One request to the complete route with any part list, up to the answer of
\* S3 to CompleteMultipartUpload.
SortNext ==
  \/ InitiateStep({12})
  \/ \E u \in Users, v \in VideoIds, parts \in AllPartLists :
       FinStart(1, u, v, parts)
  \/ FinSetProcessing(1)
  \/ \E ok \in BOOLEAN : FinComplete(1, ok)

SpecSort == Init /\ [][SortNext]_vars

\* Scenario: a 12 MB file uploaded in three parts.  The state after the
\* initiate route and three calls of updateMultipartUploadParts, for the parts
\* 2, 1 and 3 in that order.
ScenarioParts == <<Part("tagA", 1), Part("tagB", 2), Part("tagC", 3)>>

ScenarioInit ==
  /\ route \in Routes
  /\ streamRoute \in StreamRoutes
  /\ videos = [v \in VideoIds |->
                 [NoDoc EXCEPT !.status = "uploading",
                               !.uploadedById = "u2",
                               !.fileSize = 12,
                               !.uploadId = UploadId(v),
                               !.s3Key = TempKey(v),
                               !.chunkParts = <<Part("tagB", 2),
                                                Part("tagA", 1),
                                                Part("tagC", 3)>>]]
  /\ mpu = [v \in VideoIds |-> "open"]
  /\ objects = [v \in VideoIds |-> NoObjects]
  /\ scratch = [v \in VideoIds |-> FALSE]
  /\ ack = [i \in AckIds |-> IdleAck]
  /\ fin = [r \in Reqs |-> IdleFin]
  /\ del = IdleDel
  /\ cancelled = [v \in VideoIds |-> FALSE]
  /\ play = [i \in StreamIds |-> IdlePlay]
  /\ sign = IdleSign

\* The uploader's request to the complete route, with the three parts, during
\* which no call to S3, to ffmpeg, to the disk or to the database fails.
ScenarioFinalize ==
  \/ \E v \in VideoIds : FinStart(1, videos[v].uploadedById, v, ScenarioParts)
  \/ FinComplete(1, TRUE)
  \/ FinSetProcessing(1)
  \/ FinCopy(1, TRUE)
  \/ FinDelete(1, TRUE)
  \/ FinDownload(1, TRUE)
  \/ FinEncode(1, TRUE)
  \/ FinSegment(1, TRUE)
  \/ FinPlaylist(1, TRUE)
  \/ FinMaster(1, TRUE)
  \/ FinCleanup(1, TRUE)
  \/ FinSetReady(1, TRUE)
  \/ FinMarkError(1)

\* Viewers ask for the video while the request runs.
ScenarioNext ==
  \/ ScenarioFinalize
  \/ StreamStep

\* The handler of the request is run to its end by the event loop: each of
\* its steps, once enabled, is taken.
SpecScenario ==
  ScenarioInit /\ [][ScenarioNext]_vars /\ WF_vars(ScenarioFinalize)

\* ============================================================== claims
\* The part numbers a document holds in chunkParts.
AckedIndices(v) ==
  {videos[v].chunkParts[k].PartNumber : k \in 1..Len(videos[v].chunkParts)}

\* The part numbers of the calls of updateMultipartUploadParts on v that
\* ended with { success: true }.
CalledIndices(v) ==
  {ack[i].part : i \in {j \in AckIds : ack[j].pc = "ok" /\ ack[j].video = v}}

\* The position of a rendition label in the rendition table (0: no label).
QualityRank(q) ==
  IF \E i \in Rends : resolutions[i].name = q
  THEN CHOOSE i \in Rends : resolutions[i].name = q
  ELSE 0

\* The rendition a free viewer may watch at most.
FreeCeiling == "720p"

\* C1: of two requests to the complete route that both found the same
\* session Uploading, exactly one performs the transition to Processing and
\* runs the storage completion; the other is rejected with a conflict (409)
\* and runs none of the steps.
C1_ExactlyOneFinalizes ==
  \A r1 \in Reqs, r2 \in Reqs :
    ( /\ r1 # r2
      /\ fin[r1].video = fin[r2].video
      /\ fin[r1].seen = "uploading"
      /\ fin[r2].seen = "uploading" )
    => /\ ~(fin[r1].complete # "none" /\ fin[r2].complete # "none")
       /\ ~(fin[r1].setProc /\ fin[r2].setProc)
       /\ (fin[r1].pc = "done" /\ fin[r2].pc = "done")
            => 409 \in {fin[r1].resp, fin[r2].resp}

\* The moves of the status the state machine of a session allows.
StatusForward(a, b) ==
  \/ a = b
  \/ a = "absent"
  \/ b = "deleted"
  \/ a = "uploading" /\ b \in {"processing", "error"}
  \/ a = "processing" /\ b \in {"ready", "error"}

\* C2: the status of a session only moves forward along
\* Uploading -> Processing -> {Ready, Errored}; no step moves it back, and a
\* session that is Ready is never set to Processing or Errored again.
C2_StatusMonotonic ==
  [][\A v \in VideoIds : StatusForward(videos[v].status, videos'[v].status)]_vars

RenditionUploaded(v, i) ==
  objects[v].segs[i] = Segs /\ objects[v].playlist[i]

\* C4: master.m3u8 is in the bucket only when every rendition it lists has
\* all its segments and its playlist there, and a session is Ready only when
\* master.m3u8 is there listing every rendition.
C4_ManifestAfterRenditions ==
  \A v \in VideoIds :
    /\ \A k \in 1..Len(objects[v].master) :
         \E i \in Rends : /\ resolutions[i].name = objects[v].master[k]
                          /\ RenditionUploaded(v, i)
    /\ videos[v].status = "ready" =>
         /\ Len(objects[v].master) = Len(resolutions)
         /\ \A i \in Rends : RenditionUploaded(v, i)

\* C4 witness: the transcode stopped with the first rendition uploaded and
\* the second one partly uploaded; no master.m3u8, and the session Errored.
C4_StoppedInSecondRendition ==
  \E r \in Reqs, v \in VideoIds :
    /\ fin[r].pc = "done" /\ fin[r].resp = 500 /\ fin[r].video = v
    /\ fin[r].rend = 2
    /\ RenditionUploaded(v, 1)
    /\ objects[v].segs[2] # {} /\ objects[v].segs[2] # Segs
    /\ objects[v].master = <<>>
    /\ videos[v].status = "error"

\* C5: a request whose storage completion failed performs no relocation and
\* no transcode and leaves the session Errored; a request that finds the
\* session Errored is accepted and starts again from the relocation, without
\* another storage completion.
C5_CompletionFailure ==
  \A r \in Reqs :
    /\ fin[r].complete = "failed" =>
         /\ ~fin[r].copied
         /\ fin[r].pc \in {"markError", "done"}
         /\ fin[r].pc = "done" /\ Exists(fin[r].video)
              => videos[fin[r].video].status = "error"
    /\ fin[r].seen = "error" => fin[r].complete = "none" /\ fin[r].resp # 409

\* C6: chunkParts holds at most one entry for each part number.
C6_OneEntryPerPart ==
  \A v \in VideoIds :
    \A j, k \in 1..Len(videos[v].chunkParts) :
      videos[v].chunkParts[j].PartNumber = videos[v].chunkParts[k].PartNumber
      => j = k

\* C7: the part numbers a session holds are exactly those of the calls that
\* succeeded on it, in whatever order and interleaving the calls ran.
C7_AckedEqualsCalled ==
  \A v \in VideoIds : Exists(v) => AckedIndices(v) = CalledIndices(v)

\* C7 witness: two distinct parts were acknowledged out of order.
C7_OutOfOrderAcked ==
  \E v \in VideoIds :
    /\ Exists(v)
    /\ Len(videos[v].chunkParts) = 2
    /\ videos[v].chunkParts[1].PartNumber > videos[v].chunkParts[2].PartNumber
    /\ \A i \in {1, 2} : ack[i].pc = "ok"

\* C8: an acknowledgment is accepted only for a session that is Uploading,
\* and chunkParts changes only while the session is Uploading.
C8_GrowsOnlyWhileUploading ==
  [][/\ \A i \in AckIds :
          (ack[i].pc = "idle" /\ ack'[i].pc = "found")
          => videos[ack'[i].video].status = "uploading"
     /\ \A v \in VideoIds :
          videos'[v].chunkParts # videos[v].chunkParts
          => videos[v].status = "uploading"]_vars

\* The session was aborted (cancelled in the upload form, or deleted) with two
\* of its three parts acknowledged.
AbortedMidUpload(v) ==
  /\ cancelled[v] \/ videos[v].status = "deleted"
  /\ Cardinality(AckedIndices(v)) = 2

\* C9: a session aborted in mid-upload is Errored, its multipart upload is
\* aborted, and every later acknowledgment of a part of it fails.
C9_AbortLeavesErrored ==
  [][\A v \in VideoIds :
       AbortedMidUpload(v) =>
         /\ videos[v].status = "error"
         /\ mpu[v] = "aborted"
         /\ \A i \in AckIds :
              (ack[i].pc = "idle" /\ ack'[i].pc # "idle" /\ ack'[i].video = v)
              => ack'[i].pc = "failed"]_vars

\* C10: a successful answer of the stream route for a video with HLS content
\* to a viewer who is no paid member carries an allowed quality, and it is
\* not above the free ceiling.
C10_FreeCeiling ==
  \A i \in StreamIds :
    ( /\ play[i].pc = "done" /\ play[i].resp = 200 /\ play[i].isHLS
      /\ ~getUserMembership(play[i].meta).isPaidMember )
    => /\ QualityRank(play[i].allowedQuality) > 0
       /\ QualityRank(play[i].allowedQuality) <= QualityRank(FreeCeiling)

\* C11: the stream route hands out a URL only for a video that is ready when
\* it is looked up; a lookup of a video that is absent, uploading, processing
\* or failed ends the request with an error and without a URL.
C11_PlaybackOnlyWhenReady ==
  [][\A i \in StreamIds :
       (play[i].pc = "idle" /\ play'[i].pc # "idle")
       => \/ /\ Exists(play'[i].video)
             /\ videos[play'[i].video].status = "ready"
          \/ /\ play'[i].pc = "done"
             /\ play'[i].resp \in {400, 404}
             /\ play'[i].key = Undefined]_vars

\* C11 witness: one request was refused for a video that exists, and another
\* one got a URL.
C11_RefusedAndServed ==
  \E i \in StreamIds, j \in StreamIds :
    /\ play[i].pc = "done" /\ play[i].resp \in {400, 404}
    /\ Exists(play[i].video)
    /\ play[j].pc = "done" /\ play[j].resp = 200 /\ play[j].key # Undefined

\* C12: a request to the complete route that finds the session Ready answers
\* 200 at once; no step of it changes a document, the multipart upload or an
\* object.
C12_ReadyIsNoOp ==
  [][\A r \in Reqs :
       (fin'[r] # fin[r] /\ fin'[r].seen = "ready")
       => /\ fin'[r].pc = "done"
          /\ fin'[r].resp = 200
          /\ UNCHANGED <<videos, mpu, objects>>]_vars

\* A part of the list has no ETag.
HasEmptyTag(parts) == \E k \in 1..Len(parts) : parts[k].ETag = ""

\* C13: a request to the complete route for an Uploading session whose part
\* list holds a part without ETag is answered 400 at once: it sends no
\* CompleteMultipartUpload and the session stays Uploading.
C13_EmptyTagRejected ==
  [][\A r \in Reqs :
       ( /\ fin[r].pc = "idle" /\ fin'[r].pc # "idle"
         /\ HasEmptyTag(fin'[r].parts)
         /\ videos[fin'[r].video].status = "uploading" )
       => /\ fin'[r].pc = "done"
          /\ fin'[r].resp = 400
          /\ videos'[fin'[r].video].status = "uploading"]_vars

\* The part numbers of a part list.
PartNumbers(parts) == {parts[k].PartNumber : k \in 1..Len(parts)}

\* C14: a request has sent CompleteMultipartUpload only when every part of
\* its list was acknowledged in chunkParts.  (chunkParts only grows, so a part
\* missing now was missing when the command was sent.)
C14_ReportedPartsAcknowledged ==
  \A r \in Reqs :
    fin[r].complete # "none"
    => PartNumbers(fin[r].sent) \subseteq AckedIndices(fin[r].video)

\* C15: every document carries the UploadId of a multipart upload that S3
\* created.
C15_RecordHasOpenedHandle ==
  \A v \in VideoIds :
    Exists(v) => /\ videos[v].uploadId = UploadId(v)
                 /\ mpu[v] # "none"

\* C15 witness: a session was created, with its multipart upload open.
C15_SessionCreated ==
  \E v \in VideoIds :
    /\ videos[v].status = "uploading"
    /\ videos[v].uploadId = UploadId(v)
    /\ mpu[v] = "open"

\* C16: no document is saved for a file of size zero or less.
C16_NoRecordForEmptyFile ==
  \A v \in VideoIds : Exists(v) => videos[v].fileSize > 0

\* C17: the presigned route answers with a URL only for a session of the
\* caller that is Uploading.
C17_SignedOnlyWhileUploading ==
  sign.resp = 200 => sign.own /\ sign.seen = "uploading"

\* C18: the URL of the presigned route is signed for the s3Key and the
\* uploadId of the session the route looked up, and for a part of it.
C18_SignedForSessionKey ==
  sign.resp = 200
  => /\ sign.url.Key = videos[sign.video].s3Key
     /\ sign.url.UploadId = videos[sign.video].uploadId
     /\ sign.url.PartNumber \in Parts

\* C19: a request to the complete route with a well-formed part list, made by
\* a caller who is not the uploader of the session, is answered 404 at once
\* and changes no document, multipart upload or object.
C19_NonOwnerRejected ==
  [][\A r \in Reqs :
       ( /\ fin'[r] # fin[r]
         /\ ValidParts("B", fin'[r].parts)
         /\ Exists(fin'[r].video)
         /\ fin'[r].userId # videos[fin'[r].video].uploadedById )
       => /\ fin'[r].pc = "done"
          /\ fin'[r].resp = 404
          /\ UNCHANGED <<videos, mpu, objects>>]_vars

\* C20: in the scenario the session is Ready in the end, with videoKey and
\* hlsKey set and a master.m3u8 in the bucket that lists a rendition.
C20_ScenarioReachesReady ==
  <>(\A v \in VideoIds :
       /\ videos[v].status = "ready"
       /\ videos[v].videoKey = FinalKey(v)
       /\ videos[v].hlsKey # Undefined
       /\ Len(objects[v].master) >= 1)

\* C21: when deleteVideo has removed the document of a video it found
\* Uploading, the multipart upload of the video is no longer open.
C21_DeleteAbortsHandle ==
  [][(del.pc = "remove" /\ del'.pc = "idle" /\ del.seen = "uploading")
     => /\ videos'[del.video].status = "deleted"
        /\ mpu'[del.video] # "open"]_vars

\* C22: every step raises viewCount by one for each request that performs
\* its increment in it, whatever the requests read before; no increment is
\* lost and no other step touches the counter.
C22_AtomicIncrement ==
  [][\A v \in VideoIds :
       videos'[v].viewCount =
         videos[v].viewCount +
         Cardinality({i \in StreamIds : /\ play[i].video = v
                                        /\ play[i].pc = "found"
                                        /\ play'[i].pc = "done"})]_vars

\* C22 witness: two requests both read viewCount 0 before either of them
\* incremented it, and the counter is 2.
C22_BothReadZero ==
  \E v \in VideoIds :
    /\ \A i \in {1, 2} : /\ play[i].pc = "done" /\ play[i].resp = 200
                         /\ play[i].video = v /\ play[i].viewCount = 0
    /\ videos[v].viewCount = 2

\* C23: a document in status "error" holds a non-empty processingError.
C23_ErrorHasDetail ==
  \A v \in VideoIds :
    videos[v].status = "error" => videos[v].processingError # ""

\* C24: a document holds videoKey or hlsKey only in status "ready".
C24_KeysOnlyWhenReady ==
  \A v \in VideoIds :
    videos[v].status \in {"uploading", "processing", "error"}
    => videos[v].videoKey = Undefined /\ videos[v].hlsKey = Undefined

\* The positions of a request inside generateHLSContent.
TranscodeSteps ==
  {"transcode", "encode", "segments", "playlist", "master", "cleanup"}

\* C25: when generateHLSContent returns or throws, the scratch directory of
\* the video is gone.
C25_ScratchRemoved ==
  [][\A r \in Reqs :
       (fin[r].pc \in TranscodeSteps /\ fin'[r].pc \in {"setReady", "markError"})
       => ~scratch'[fin[r].video]]_vars

\* The number of entries of a list that equal e.
Count(seq, e) == Cardinality({k \in 1..Len(seq) : seq[k] = e})

\* C26: the part list of the CompleteMultipartUpload command is the list of
\* the request sorted by PartNumber: ascending, of the same length, and with
\* every entry as often as in the request.
C26_SentIsSortedInput ==
  \A r \in Reqs :
    fin[r].complete # "none"
    => /\ Len(fin[r].sent) = Len(fin[r].parts)
       /\ \A k \in 1..Len(fin[r].sent) :
            k < Len(fin[r].sent)
            => fin[r].sent[k].PartNumber <= fin[r].sent[k + 1].PartNumber
       /\ \A k \in 1..Len(fin[r].parts) :
            Count(fin[r].sent, fin[r].parts[k])
              = Count(fin[r].parts, fin[r].parts[k])

\* C26 witness: a list of three parts, out of order, with a gap and with one
\* part number twice, was sent to S3.
C26_UnsortedWithGapSent ==
  \E r \in Reqs :
    /\ fin[r].complete # "none"
    /\ Len(fin[r].parts) = 3
    /\ fin[r].parts[1].PartNumber = 3
    /\ fin[r].parts[2].PartNumber = 1
    /\ fin[r].parts[3].PartNumber = 3
    /\ fin[r].parts[1].ETag # fin[r].parts[3].ETag

\* Rendition i has some, but not all, of its objects in the bucket.
RenditionIncomplete(v, i) ==
  /\ objects[v].segs[i] # {} \/ objects[v].playlist[i]
  /\ ~RenditionUploaded(v, i)

\* C27: in one transcode the playlist of a rendition is uploaded after all
\* its segments, a segment of a rendition only after the rendition before
\* it is uploaded entirely, and so at most one rendition is incomplete.
C27_RenditionByRendition ==
  \A v \in VideoIds :
    /\ \A i \in Rends : objects[v].playlist[i] => objects[v].segs[i] = Segs
    /\ \A i \in Rends :
         (i > 1 /\ objects[v].segs[i] # {}) => RenditionUploaded(v, i - 1)
    /\ Cardinality({i \in Rends : RenditionIncomplete(v, i)}) <= 1

\* C27 witness: the transcode stopped after the first segment of the second
\* rendition.
C27_OneIncomplete ==
  \E v \in VideoIds :
    /\ fin[1].pc = "done" /\ fin[1].resp = 500 /\ fin[1].video = v
    /\ RenditionUploaded(v, 1)
    /\ RenditionIncomplete(v, 2)
    /\ ~objects[v].playlist[2]

\* C28: a request that is inside generateHLSContent, or leaves it, has the
\* object under the final key, and no step removes the object under the final
\* key; so it is there when the request answers after a failed transcode.
C28_SourceLeftInPlace ==
  [][/\ \A r \in Reqs :
          (fin[r].pc \in TranscodeSteps \/ fin'[r].pc \in TranscodeSteps)
          => objects'[fin'[r].video].final
     /\ \A v \in VideoIds : objects[v].final => objects'[v].final]_vars

\* C28 witness: a request answered 500 after ffmpeg failed, the session is
\* Errored and the object is under the final key.
C28_TranscodeFailed ==
  \E r \in Reqs :
    /\ fin[r].pc = "done" /\ fin[r].resp = 500
    /\ fin[r].rend = 1 /\ fin[r].seg = 0
    /\ videos[fin[r].video].status = "error"
    /\ objects[fin[r].video].final

\* C29: the stream route signs, for a video with HLS content, the key under
\* which generateHLSContent uploaded master.m3u8, and for a video without HLS
\* content its videoKey.
C29_SignedKeyIsManifestKey ==
  \A i \in StreamIds :
    (play[i].pc = "done" /\ play[i].resp = 200)
    => IF play[i].isHLS
       THEN play[i].key = MasterKey(HlsBaseDir(play[i].video))
       ELSE play[i].key = FinalKey(play[i].video)

\* C30: once S3 has completed the multipart upload, the object is under the
\* temporary key or under the final key.
C30_ObjectNeverLost ==
  \A v \in VideoIds :
    mpu[v] = "completed" => objects[v].temp \/ objects[v].final

\* C30 witness: the copy failed; the object is still under the temporary key
\* and not under the final key.
C30_CopyFailed ==
  \E r \in Reqs :
    /\ fin[r].pc = "done" /\ fin[r].resp = 500
    /\ fin[r].complete = "ok" /\ fin[r].copied
    /\ objects[fin[r].video].temp
    /\ ~objects[fin[r].video].final

====
